---- MODULE Spec2Model ----
(***************************************************************************)
(* Model of app.py: a Streamlit page that sends the user's text, a persona *)
(* instruction and the conversation so far to a chat model through         *)
(* RunnableWithMessageHistory, and keeps the conversation per browser      *)
(* session in st.session_state.history_store.                              *)
(*                                                                         *)
(* Text is a sequence of one-character strings, so that str.strip() is     *)
(* computed rather than assumed.  A chat message is a record               *)
(* [type, content] with type "system", "human" or "ai".                    *)
(*                                                                         *)
(* A script run that submits blocks inside chain_with_history.invoke while *)
(* the remote call is in flight; Streamlit starts the next script run of   *)
(* the same browser session in another thread meanwhile, so a request in   *)
(* flight is part of the state.  What a handler does before and after the  *)
(* remote call is one step each: the two appends of add_messages are not   *)
(* interleaved with another thread's.                                      *)
(***************************************************************************)
EXTENDS Naturals, Sequences, FiniteSets, TLC

VARIABLES
    session_state,  \* per browser session: [session_id, history_store]
    heap,           \* per session state: its history objects, id -> .messages
    calls,          \* per browser session: the invoke calls in flight
    last,           \* the outcome of the handler that finished last
    turns,          \* per session state: successful turns of the current history
    begun           \* the requests sent to the remote model so far

vars == <<session_state, heap, calls, last, turns, begun>>

----------------------------------------------------------------------------
(* Bounds *)

\* At most MaxCalls requests are sent to the remote model in one behaviour.
MaxCalls == 2

----------------------------------------------------------------------------
(* Data *)

Sessions == {"s1", "s2"}

Whitespace == {" ", "\t", "\n"}

\* What the text area may hold.
InputTexts ==
    { << >>, <<" ", "\t">>, <<"1">>, <<" ", "2", "\n">> }

\* What ask_llm_once may be given as role_key.
RoleKeys == {"QA", "Sales", "nonexistent-role"}

\* What the remote model may answer.
Replies == { <<"r", "1">> }

\* How the remote call may fail.
Failures == {"TransportError", "AuthError", "RemoteError"}

EXPERT_ROLES ==
    [k \in {"QA", "Sales"} |->
        IF k = "QA" THEN <<"Q", "A">> ELSE <<"S", "P">>]

Message(type, content) == [type |-> type, content |-> content]

Human(content) == Message("human", content)

AI(content) == Message("ai", content)

----------------------------------------------------------------------------
(* str.strip() *)

RECURSIVE lstrip(_)
lstrip(s) ==
    IF s = << >> THEN s
    ELSE IF Head(s) \in Whitespace THEN lstrip(Tail(s))
    ELSE s

RECURSIVE rstrip(_)
rstrip(s) ==
    IF s = << >> THEN s
    ELSE IF s[Len(s)] \in Whitespace THEN rstrip(SubSeq(s, 1, Len(s) - 1))
    ELSE s

\* A variant that leaves the trailing whitespace.
stripLeadingOnly(s) == lstrip(s)

strip(s) == rstrip(lstrip(s))

----------------------------------------------------------------------------
(* The prompt: ChatPromptTemplate.from_messages *)

\* A template string is a sequence of parts, a literal text or a variable.
Var(name) == [var |-> name, lit |-> << >>]

prompt ==
    << [item |-> "template", type |-> "system",
        template |-> << Var("system_message") >>],
       [item |-> "placeholder", type |-> "", variable_name |-> "history"],
       [item |-> "template", type |-> "human",
        template |-> << Var("input_text") >>] >>

\* str.format of a template: each variable gives its value as it is.
RECURSIVE format(_, _)
format(template, values) ==
    IF template = << >> THEN << >>
    ELSE LET part == Head(template)
         IN (IF part.var = "" THEN part.lit ELSE values[part.var])
            \o format(Tail(template), values)

\* prompt.format_messages: one message per template, the placeholder's
\* messages in their order.
RECURSIVE format_messages(_, _)
format_messages(items, values) ==
    IF items = << >> THEN << >>
    ELSE LET it == Head(items)
         IN (IF it.item = "placeholder"
             THEN values[it.variable_name]
             ELSE << Message(it.type, format(it.template, values)) >>)
            \o format_messages(Tail(items), values)

----------------------------------------------------------------------------
(* The session state and the history objects *)

\* A variant where every browser session shares one state.
SharedSession(b) == "s1"

\* The st.session_state a script run of browser session b reads and writes.
ScriptSession(b) == b

\* The id of the next object created: the smallest one not in use.
NewObj(h) ==
    CHOOSE o \in 1..(Cardinality(DOMAIN h) + 1) :
        /\ o \notin DOMAIN h
        /\ \A p \in 1..(o - 1) : p \in DOMAIN h

\* get_session_history(session_id): the store and the heap after the call,
\* which creates an empty history for a session id the store does not hold.
StoreAfterGet(store, h, session_id) ==
    IF session_id \in DOMAIN store THEN store
    ELSE store @@ (session_id :> NewObj(h))

HeapAfterGet(store, h, session_id) ==
    IF session_id \in DOMAIN store THEN h
    ELSE h @@ (NewObj(h) :> << >>)

\* A variant that removes nothing.
popKeepsEntry(store, key) == [store |-> store, raised |-> FALSE]

\* A variant without the default: a key the store lacks raises KeyError.
popNoDefault(store, key) ==
    [store |-> [s \in (DOMAIN store) \ {key} |-> store[s]],
     raised |-> key \notin DOMAIN store]

\* history_store.pop(session_id, None): the store without the key, and
\* whether the call raised.
pop(store, key) ==
    [store |-> [s \in (DOMAIN store) \ {key} |-> store[s]],
     raised |-> FALSE]

\* The history objects of session state k something still refers to: the
\* store, or a call in flight of a script run on k.
Referenced(ss, cs, k) ==
    { ss[k].history_store[s] : s \in DOMAIN ss[k].history_store }
    \cup UNION { { cs[b][i].hist : i \in 1..Len(cs[b]) } :
                 b \in { c \in Sessions : ScriptSession(c) = k } }

\* An object nothing refers to is freed.
Collect(h, ss, cs) ==
    [k \in Sessions |->
        [o \in (DOMAIN h[k]) \cap Referenced(ss, cs, k) |-> h[k][o]]]

\* InMemoryChatMessageHistory.add_messages
add_messages(messages, new) == messages \o new

\* What the history expander shows for browser session b (the read alone,
\* without the creation get_session_history does).
ListHistory(b) ==
    LET ss == session_state[ScriptSession(b)]
    IN IF ss.session_id \in DOMAIN ss.history_store
       THEN heap[ScriptSession(b)][ss.history_store[ss.session_id]]
       ELSE << >>

Outcome(kind, text) == [kind |-> kind, text |-> text]

----------------------------------------------------------------------------
(* The steps of a script run *)

\* Line 136: the history expander calls get_session_history.
\* The session state and the heap after it.
Display(ss, h, b) ==
    LET k     == ScriptSession(b)
        sid   == ss[k].session_id
        store == ss[k].history_store
    IN [session_state |->
            [ss EXCEPT ![k].history_store = StoreAfterGet(store, h[k], sid)],
        heap |-> [h EXCEPT ![k] = HeapAfterGet(store, h[k], sid)]]

\* Lines 129-132: the clear button. The entry of the session id is popped,
\* the object is freed unless a call in flight holds it, and st.rerun()
\* runs the script again, which shows the history (line 136).
ClearRun(ss, h, cs, b) ==
    LET k      == ScriptSession(b)
        popped == pop(ss[k].history_store, ss[k].session_id)
        ss1    == [ss EXCEPT ![k].history_store = popped.store]
        shown  == Display(ss1, Collect(h, ss1, cs), b)
    IN IF popped.raised
       THEN [session_state |-> ss, heap |-> h, raised |-> TRUE]
       ELSE [session_state |-> shown.session_state, heap |-> shown.heap,
             raised |-> FALSE]

\* A variant that falls back to the first role for a key it does not know.
resolveWithFallback(role_key) ==
    IF role_key \in DOMAIN EXPERT_ROLES THEN EXPERT_ROLES[role_key]
    ELSE EXPERT_ROLES["QA"]

\* Line 85: EXPERT_ROLES.get(role_key, "")
resolve(role_key) ==
    IF role_key \in DOMAIN EXPERT_ROLES THEN EXPERT_ROLES[role_key] ELSE << >>

\* Lines 85-89: what ask_llm_once raises before it calls the chain, or "".
Rejects(input_text, role_key) ==
    IF resolve(role_key) = << >> THEN "UnknownRole"
    ELSE IF input_text = << >> \/ strip(input_text) = << >> THEN "EmptyInput"
    ELSE ""

\* A variant that also puts the new input into the history it sends.
EnterHistoryInputTwice(ss, h, b, input_text, role_key) ==
    LET k    == ScriptSession(b)
        hist == ss[k].history_store[ss[k].session_id]
    IN [hist     |-> hist,
        messages |-> format_messages(prompt,
                         [system_message |-> resolve(role_key),
                          history        |-> h[k][hist]
                                             \o << Human(strip(input_text)) >>,
                          input_text     |-> strip(input_text)]),
        input    |-> strip(input_text)]

\* RunnableWithMessageHistory, entering: the history object of the session
\* id is fetched, its messages are copied into the prompt, and the request
\* is what the model is sent. The call in flight keeps the object, to add
\* the exchange to it when the model has answered.
EnterHistory(ss, h, b, input_text, role_key) ==
    LET k    == ScriptSession(b)
        hist == ss[k].history_store[ss[k].session_id]
    IN [hist     |-> hist,
        messages |-> format_messages(prompt,
                         [system_message |-> resolve(role_key),
                          history        |-> h[k][hist],
                          input_text     |-> strip(input_text)]),
        input    |-> strip(input_text)]

\* A variant that records the answer alone.
ExitHistoryAnswerOnly(h, b, call, reply) ==
    [h EXCEPT ![ScriptSession(b)][call.hist] = add_messages(@, << AI(reply) >>)]

\* A variant that records the messages of the request with the answer.
ExitHistoryWholeRequest(h, b, call, reply) ==
    [h EXCEPT ![ScriptSession(b)][call.hist] =
        add_messages(@, << call.messages[1], Human(call.input), AI(reply) >>)]

\* RunnableWithMessageHistory, leaving: the input message and the answer
\* are added to the history object the call fetched when it entered.
ExitHistory(h, b, call, reply) ==
    [h EXCEPT ![ScriptSession(b)][call.hist] =
        add_messages(@, << Human(call.input), AI(reply) >>)]

\* A variant that records the input of a call that failed.
OnErrorKeepsInput(h, b, call) ==
    [h EXCEPT ![ScriptSession(b)][call.hist] =
        add_messages(@, << Human(call.input) >>)]

\* RunnableWithMessageHistory, failing: the chain's on_end listener is the
\* one that records, and it does not run when the remote call raises.
OnError(h, b, call) == h

Remove(seq, i) == SubSeq(seq, 1, i - 1) \o SubSeq(seq, i + 1, Len(seq))

\* Whether the call still holds the object the store gives for its session.
Attached(ss, b, call) ==
    LET k == ScriptSession(b)
    IN /\ ss[k].session_id \in DOMAIN ss[k].history_store
       /\ ss[k].history_store[ss[k].session_id] = call.hist

----------------------------------------------------------------------------
(* Actions *)

\* Lines 60-63 of the first script run of each browser session.
Init ==
    /\ session_state =
         [b \in Sessions |-> [session_id |-> "default", history_store |-> << >>]]
    /\ heap = [b \in Sessions |-> << >>]
    /\ calls = [b \in Sessions |-> << >>]
    /\ last = Outcome("none", << >>)
    /\ turns = [b \in Sessions |-> 0]
    /\ begun = 0

\* A script run with no button pressed (the page is loaded, a widget changed).
Render(b) ==
    LET shown == Display(session_state, heap, b)
    IN /\ session_state' = shown.session_state
       /\ heap' = shown.heap
       /\ UNCHANGED <<calls, last, turns, begun>>

\* A script run with the clear button pressed.
Clear(b) ==
    LET run == ClearRun(session_state, heap, calls, b)
    IN /\ session_state' = run.session_state
       /\ heap' = run.heap
       /\ last' = IF run.raised THEN Outcome("KeyError", << >>)
                  ELSE Outcome("cleared", << >>)
       /\ turns' = [turns EXCEPT ![ScriptSession(b)] =
                     IF run.raised THEN @ ELSE 0]
       /\ UNCHANGED <<calls, begun>>

\* A script run with the send button pressed, up to the point where
\* ask_llm_once has raised or the request is with the remote model.
Submit(b, input_text, role_key) ==
    LET shown == Display(session_state, heap, b)
        why   == Rejects(input_text, role_key)
        call  == EnterHistory(shown.session_state, shown.heap, b,
                              input_text, role_key)
    IN /\ IF why # ""
          THEN /\ last' = Outcome(why, << >>)
               /\ UNCHANGED <<calls, begun>>
          ELSE /\ begun < MaxCalls
               /\ begun' = begun + 1
               /\ last' = last
               /\ calls' = [calls EXCEPT ![b] = Append(@, call)]
       /\ turns' = turns
       /\ session_state' = shown.session_state
       /\ heap' = shown.heap

\* The remote model answers call i of browser session b.
Respond(b, i, reply) ==
    /\ i \in 1..Len(calls[b])
    /\ LET call == calls[b][i]
           rest == [calls EXCEPT ![b] = Remove(@, i)]
       IN /\ calls' = rest
          /\ heap' = Collect(ExitHistory(heap, b, call, reply), session_state, rest)
          /\ last' = Outcome("answer", reply)
          /\ turns' = [turns EXCEPT ![ScriptSession(b)] =
                        IF Attached(session_state, b, call) THEN @ + 1 ELSE @]
          /\ UNCHANGED <<session_state, begun>>

\* The remote call of call i of browser session b fails.
Fail(b, i, error) ==
    /\ i \in 1..Len(calls[b])
    /\ LET call == calls[b][i]
           rest == [calls EXCEPT ![b] = Remove(@, i)]
       IN /\ calls' = rest
          /\ heap' = Collect(OnError(heap, b, call), session_state, rest)
          /\ last' = Outcome(error, << >>)
          /\ UNCHANGED <<session_state, turns, begun>>

Next ==
    \/ \E b \in Sessions : Render(b)
    \/ \E b \in Sessions : Clear(b)
    \/ \E b \in Sessions, input_text \in InputTexts, role_key \in RoleKeys :
          Submit(b, input_text, role_key)
    \/ \E b \in Sessions, i \in 1..MaxCalls, reply \in Replies :
          Respond(b, i, reply)
    \/ \E b \in Sessions, i \in 1..MaxCalls, error \in Failures :
          Fail(b, i, error)

Spec == Init /\ [][Next]_vars

----------------------------------------------------------------------------
(* Vocabulary of the properties *)

\* The request the Submit step has just sent for browser session b.
Sent(b) == calls'[b][Len(calls'[b])]

\* A Submit step of b that sent a request.
Sends(b) == Len(calls'[b]) = Len(calls[b]) + 1

Blank(text) == \A i \in 1..Len(text) : text[i] \in Whitespace

\* t is text without its leading and trailing whitespace.
Trimmed(t, text) ==
    \E i \in 0..Len(text), j \in 0..Len(text) :
        /\ i <= j
        /\ t = SubSeq(text, i + 1, j)
        /\ \A n \in 1..i : text[n] \in Whitespace
        /\ \A n \in (j + 1)..Len(text) : text[n] \in Whitespace
        /\ t # << >> => (t[1] \notin Whitespace /\ t[Len(t)] \notin Whitespace)

\* The contiguous parts of text.
Parts(text) ==
    { SubSeq(text, i + 1, j) : i \in 0..Len(text), j \in 0..Len(text) }

\* Human, ai, human, ai, ... from the first message on.
Alternates(messages) ==
    \A n \in 1..Len(messages) :
        messages[n].type = (IF n % 2 = 1 THEN "human" ELSE "ai")

\* A call of b that a clear has cut off from the session's history.
Stale(b, call) == ~Attached(session_state, b, call)

----------------------------------------------------------------------------
(* C1 *)

C1_Counts ==
    \A b \in Sessions :
        /\ Len(ListHistory(b)) = 2 * turns[b]
        /\ Alternates(ListHistory(b))

C1_Appends ==
    \A b \in Sessions, i \in 1..MaxCalls, reply \in Replies :
        (Respond(b, i, reply) /\ Attached(session_state, b, calls[b][i])) =>
            ListHistory(b)' =
                ListHistory(b) \o << Human(calls[b][i].input), AI(reply) >>

\* C1: with no reset in between, the history of a session holds two turns
\* per successful call, human then assistant alternating from the first, and
\* each successful call appends its user turn and then the reply.
C1_TwoTurnsPerSuccess == []C1_Counts /\ [][C1_Appends]_vars

\* Two successful calls on one session, four turns.
C1_Witness == \E b \in Sessions : turns[b] = 2 /\ Len(ListHistory(b)) = 4

----------------------------------------------------------------------------
(* C2 *)

Unrecorded ==
    \A k \in Sessions : \A o \in DOMAIN heap'[k] :
        heap'[k][o] = (IF o \in DOMAIN heap[k] THEN heap[k][o] ELSE << >>)

\* A Submit step of b in which ask_llm_once raised.
Refused(b) ==
    /\ calls' = calls
    /\ \E input_text \in InputTexts, role_key \in RoleKeys :
          Submit(b, input_text, role_key)

C2_Rejected ==
    \A b \in Sessions :
        \/ /\ ListHistory(b)' = ListHistory(b)
           /\ Unrecorded
           /\ last'.kind \in {"UnknownRole", "EmptyInput"}
        \/ ~Refused(b)

C2_Failed ==
    \A b \in Sessions, error \in Failures :
        \/ /\ ListHistory(b)' = ListHistory(b)
           /\ Unrecorded
           /\ last' = Outcome(error, << >>)
        \/ ~(\E i \in 1..MaxCalls : Fail(b, i, error))

\* C2: a call of ask_llm_once that fails (unknown role, empty input, or a
\* failure of the remote call) leaves the history of its session as it was,
\* records no turn anywhere, and its failure is what the caller gets.
C2_FailureRecordsNothing == [][C2_Rejected /\ C2_Failed]_vars

\* The remote call failed on a session that holds an exchange; the other
\* session has not run.
C2_Witness ==
    /\ last.kind = "TransportError"
    /\ Len(ListHistory("s1")) = 2
    /\ session_state["s2"].history_store = << >>

----------------------------------------------------------------------------
(* C3 *)

C3_Request ==
    \A b \in Sessions, input_text \in InputTexts, role_key \in RoleKeys :
        (Sends(b) /\ Submit(b, input_text, role_key)) =>
            /\ role_key \in DOMAIN EXPERT_ROLES
            /\ \E t \in Parts(input_text) :
                  /\ Trimmed(t, input_text)
                  /\ Sent(b).messages =
                        << Message("system", EXPERT_ROLES[role_key]) >>
                        \o ListHistory(b)
                        \o << Human(t) >>

\* C3: the request sent is the system message of the selected role, then
\* the stored history of the session as it was before the turn, in order,
\* then one human message with the new input, which appears once.
C3_RequestIsSystemHistoryInput == [][C3_Request]_vars

\* Role QA, "1" answered "r1", then "2": the request for the second turn.
C3_Witness ==
    \E b \in Sessions : \E i \in 1..Len(calls[b]) :
        calls[b][i].messages =
            << Message("system", EXPERT_ROLES["QA"]), Human(<<"1">>),
               AI(<<"r", "1">>), Human(<<"2">>) >>

----------------------------------------------------------------------------
(* C4 *)

C4_Cleared == \A b \in Sessions : ListHistory(b)' = << >> \/ ~Clear(b)

C4_Fresh ==
    \A b \in Sessions, i \in 1..MaxCalls, reply \in Replies :
        ( /\ Respond(b, i, reply)
          /\ Attached(session_state, b, calls[b][i])
          /\ ListHistory(b) = << >> ) =>
            ListHistory(b)' = << Human(calls[b][i].input), AI(reply) >>

\* C4: after the clear button the history of the session is empty, whatever
\* it held, and the next successful turn begun on it gives a history of two.
C4_ClearEmpties == [][C4_Cleared /\ C4_Fresh]_vars

\* A session cleared while its second turn was in flight: it held an
\* exchange (the request in flight carries it), and shows none now.
C4_Witness ==
    /\ last.kind = "cleared"
    /\ \E b \in Sessions :
          /\ ListHistory(b) = << >>
          /\ \E i \in 1..Len(calls[b]) :
                Stale(b, calls[b][i]) /\ Len(calls[b][i].messages) = 4

----------------------------------------------------------------------------
(* C5 *)

C5_Trims ==
    \A b \in Sessions, input_text \in InputTexts, role_key \in RoleKeys :
        (Sends(b) /\ Submit(b, input_text, role_key)) =>
            /\ ~Blank(input_text)
            /\ Trimmed(Sent(b).input, input_text)
            /\ Sent(b).messages[Len(Sent(b).messages)] = Human(Sent(b).input)

C5_Stores ==
    \A b \in Sessions, i \in 1..MaxCalls, reply \in Replies :
        Respond(b, i, reply) =>
            LET call == calls[b][i]
                was  == heap[b][call.hist]
            IN /\ call.hist \in DOMAIN heap'[b] =>
                    heap'[b][call.hist][Len(was) + 1] =
                        call.messages[Len(call.messages)]

\* C5 as stated: blank input fails with the empty-input error and
\* sends nothing, whatever the role key.
C5_BlankAlwaysEmptyInput ==
    [][\A b \in Sessions, input_text \in InputTexts, role_key \in RoleKeys :
          (Blank(input_text) /\ Submit(b, input_text, role_key)) =>
              (last'.kind = "EmptyInput" /\ ~Sends(b))]_vars

C5_BlankKnownRole ==
    \A b \in Sessions :
        \/ last' = Outcome("EmptyInput", << >>) /\ ~Sends(b)
        \/ ~(\E input_text \in InputTexts, role_key \in DOMAIN EXPERT_ROLES :
                Blank(input_text) /\ Submit(b, input_text, role_key))

\* C5 (amended): with a role key of the registry, blank input fails with the
\* empty-input error and sends nothing; input that is sent is sent, and
\* later stored, without its leading and trailing whitespace.
C5_BlankRejectedRestTrimmed ==
    [][C5_BlankKnownRole /\ C5_Trims /\ C5_Stores]_vars

\* " 2\n" was asked and answered: the history holds "2".
C5_Witness ==
    \E b \in Sessions :
        Len(ListHistory(b)) = 2 /\ ListHistory(b)[1] = Human(<<"2">>)

----------------------------------------------------------------------------
(* C6 *)

C6_Unknown ==
    \A b \in Sessions :
        \/ /\ last' = Outcome("UnknownRole", << >>)
           /\ ~Sends(b)
           /\ calls' = calls
           /\ begun' = begun
        \/ ~(\E input_text \in InputTexts,
                role_key \in RoleKeys \ DOMAIN EXPERT_ROLES :
                    Submit(b, input_text, role_key))

C6_Known ==
    \A b \in Sessions, input_text \in InputTexts, role_key \in RoleKeys :
        (Sends(b) /\ Submit(b, input_text, role_key)) =>
            /\ role_key \in DOMAIN EXPERT_ROLES
            /\ Sent(b).messages[1] = Message("system", EXPERT_ROLES[role_key])

\* C6: a role key the registry lacks fails with the unknown-role error and
\* sends nothing, no instruction standing in for it; a key of the registry
\* sends its instruction as the system message, unchanged.
C6_UnknownRoleRejected == [][C6_Unknown /\ C6_Known]_vars

\* An unknown role was just refused while a request of role Sales is out.
C6_Witness ==
    /\ last.kind = "UnknownRole"
    /\ \E b \in Sessions : \E i \in 1..Len(calls[b]) :
          calls[b][i].messages[1] = Message("system", EXPERT_ROLES["Sales"])

----------------------------------------------------------------------------
(* C7 *)

Acts(b) ==
    \/ Render(b)
    \/ Clear(b)
    \/ \E input_text \in InputTexts, role_key \in RoleKeys :
          Submit(b, input_text, role_key)
    \/ \E i \in 1..MaxCalls, reply \in Replies : Respond(b, i, reply)
    \/ \E i \in 1..MaxCalls, error \in Failures : Fail(b, i, error)

----------------------------------------------------------------------------
(* C8 *)

\* C8: the clear never raises, a session with no history has none after it,
\* and a second clear leaves what the first one left.
C8_ClearIdempotent ==
    \A b \in Sessions :
        LET once  == ClearRun(session_state, heap, calls, b)
            twice == ClearRun(once.session_state, once.heap, calls, b)
            k     == ScriptSession(b)
            store == once.session_state[k].history_store
        IN /\ ~once.raised
           /\ twice = once
           /\ ListHistory(b) = << >> =>
                 once.heap[k][store[once.session_state[k].session_id]] = << >>

\* The clear button was pressed on a page that has asked nothing.
C8_Witness ==
    /\ last.kind = "cleared"
    /\ begun = 0
    /\ \E b \in Sessions : session_state[b].history_store = << >>

----------------------------------------------------------------------------
(* C9 *)

\* C9: when the session is cleared while a turn is in flight, the exchange
\* of that turn lands in the history the store holds for the session now.
C9_AppendLandsInCurrentHistory ==
    [][\A b \in Sessions, i \in 1..MaxCalls, reply \in Replies :
          (Respond(b, i, reply) /\ Stale(b, calls[b][i])) =>
              ListHistory(b)' =
                  ListHistory(b) \o << Human(calls[b][i].input), AI(reply) >>]_vars

----------------------------------------------------------------------------
(* C10 *)

Stored(m) ==
    /\ m.type \in {"human", "ai"}
    /\ m.type = "human" =>
          /\ m.content # << >>
          /\ m.content[1] \notin Whitespace
          /\ m.content[Len(m.content)] \notin Whitespace

\* C10: a stored history holds human and assistant turns only, never the
\* system instruction, and its human turns are non-empty and trimmed; a
\* request carries the stored history as it is behind its system message,
\* whichever role was selected.
C10_HistoryHoldsTurnsOnly ==
    /\ \A k \in Sessions : \A o \in DOMAIN heap[k] :
          \A n \in 1..Len(heap[k][o]) : Stored(heap[k][o][n])
    /\ \A b \in Sessions : \A i \in 1..Len(calls[b]) :
          LET m == calls[b][i].messages
              h == heap[b][calls[b][i].hist]
          IN /\ m[1].type = "system"
             /\ Len(m) - 2 <= Len(h)
             /\ SubSeq(m, 2, Len(m) - 1) = SubSeq(h, 1, Len(m) - 2)

\* A request of role Sales in flight that carries an exchange of the history.
C10_Witness ==
    \E b \in Sessions : \E i \in 1..Len(calls[b]) :
        /\ calls[b][i].messages[1] = Message("system", EXPERT_ROLES["Sales"])
        /\ Len(calls[b][i].messages) = 4
        /\ Len(ListHistory(b)) = 2

====
